---- MODULE Spec2Model ----
(***************************************************************************)
(* Model of the ICS -> Google Calendar importer                            *)
(* ("Outlook Cal to Google Cal/ics_to_google_calendar.py"):                *)
(* main()'s loop over the input files, GoogleCalendarImporter.import_events*)
(* with its duplicate set, rate-limit retry and reduced-payload fallback,  *)
(* and _get_existing_uids with its paginated listing.                      *)
(*                                                                         *)
(* The destination (the Google Calendar service) is an external            *)
(* collaborator: every response the code distinguishes is a                *)
(* nondeterministic choice.                                                *)
(*                                                                         *)
(* The parts of the translation of a VEVENT (title, start and end,         *)
(* reminders, organizer and attendees), filter_events_by_date,             *)
(* normalize_timezone and the class ValidationResult of                    *)
(* "Outlook Mail to Google Mail/eml_validator.py" are studied on their     *)
(* own, each under a specification that draws its arguments from a         *)
(* bounded set.  main of "Outlook Mail to Google Mail/pst_to_gmail.py",    *)
(* with convert_pst_to_eml and run_gyb_upload, is modelled as a second     *)
(* program over the state of its output directory.                         *)
(***************************************************************************)
EXTENDS Integers, Sequences, FiniteSets, TLC

----------------------------------------------------------------------------
(* Bounds of the model *)

\* native UIDs of legacy records are 1..MaxId
MaxId == 1
\* records (translatable or not) over all input files
MaxEvents == 2
\* input files found by find_ics_files
MaxFiles == 2
\* attendees kept on one translated event
MaxAtt == 1
\* records at the destination before the run
MaxDest == 1
\* records per page of events().list (maxResults, scaled down)
PageSize == 1
\* runs of the pipeline against the same destination
MaxRuns == 2
\* start days of the events main handles are 1..MaxDay
MaxDay == 1
\* values of --limit are 0..MaxLimit
MaxLimit == 1
\* filter_events_by_date on its own: days 1..MaxFilterDay, lists of at most
\* MaxFilterLen events
MaxFilterDay == 3
MaxFilterLen == 3
\* DTSTART and DTEND fall on the days 1..MaxDtDay
MaxDtDay == 2
\* VALARMs of one VEVENT
MaxAlarms == 6
\* ATTENDEE properties of one VEVENT
MaxAttendees == 2
\* add_warning and add_error calls on one ValidationResult
MaxCalls == 6

----------------------------------------------------------------------------
(* Identifiers and events *)

\* event.get('iCalUID', '') : the empty string
Empty == 0

NativeIds == 1 .. MaxId

\* hashlib.md5(...).hexdigest() + "@imported": the id derived for a record
\* that has no UID
DerivedId == MaxId + 1

Ids == NativeIds \cup {DerivedId}

\* event['start'] of an all-day event: {'date': 'YYYY-MM-DD'}
AllDayStart(d) == [date |-> d]

\* event['start'] of a timed event: {'dateTime': 'YYYY-MM-DDTHH:MM:SS...'}
TimedStart(d, m) == [dateTime |-> [day |-> d, minute |-> m]]

\* the starts of the events main handles (the time of day plays no part there)
Starts == {AllDayStart(d) : d \in 1 .. MaxDay}

\* _convert_vevent_to_google_event, as far as main and import_events read its
\* result: iCalUID is the UID or the derived id,
\* extendedProperties.private.outlookUID is set only when the record has a
\* UID, organizer and attendees are kept independently of each other;
\* self_attendee tells whether the --add-self address is among the attendees.
ConvertVevent(id, att, org, st, self) ==
    [iCalUID       |-> id,
     outlookUID    |-> IF id \in NativeIds THEN id ELSE Empty,
     attendees     |-> att,
     organizer     |-> org,
     start         |-> st,
     self_attendee |-> self]

\* the events of a run without --add-self
TranslatedEvents ==
    {ConvertVevent(id, att, org, st, FALSE) :
        id \in Ids, att \in 0 .. MaxAtt, org \in BOOLEAN, st \in Starts}

RECURSIVE EventSeqs(_)
EventSeqs(n) ==
    IF n = 0 THEN {<<>>}
    ELSE {Append(s, e) : s \in EventSeqs(n - 1), e \in TranslatedEvents}

\* One input file: the events parse_ics_file converts and the number of
\* VEVENTs whose conversion raises.
FilesUpTo(b) ==
    UNION {{[events |-> es, bad |-> k] : es \in EventSeqs(m), k \in 0 .. (b - m)} : m \in 0 .. b}

RECURSIVE FileSeqs(_, _)
FileSeqs(n, b) ==
    IF n = 0 THEN {<<>>}
    ELSE UNION {{<<f>> \o r : r \in FileSeqs(n - 1, b - Len(f.events) - f.bad)} : f \in FilesUpTo(b)}

Inputs(b) == UNION {FileSeqs(n, b) : n \in 0 .. MaxFiles}

\* the events of a run with or without --add-self, all with an organizer: with
\* --add-self the address may be among the attendees of an event already
OptionEvents(self) ==
    {ConvertVevent(id, att, TRUE, st, FALSE) :
        id \in Ids, att \in 0 .. MaxAtt, st \in Starts}
    \cup (IF self
          THEN {ConvertVevent(id, att, TRUE, st, TRUE) :
                    id \in Ids, att \in 1 .. MaxAtt, st \in Starts}
          ELSE {})

RECURSIVE SeqsOver(_, _)
SeqsOver(E, n) ==
    IF n = 0 THEN {<<>>}
    ELSE {Append(s, e) : s \in SeqsOver(E, n - 1), e \in E}

\* n files of convertible records only, at most b events in all
RECURSIVE FileSeqsOver(_, _, _)
FileSeqsOver(E, n, b) ==
    IF n = 0 THEN {<<>>}
    ELSE UNION {{<<[events |-> es, bad |-> 0]>> \o r :
                    r \in FileSeqsOver(E, n - 1, b - Len(es))} :
                es \in UNION {SeqsOver(E, m) : m \in 0 .. b}}

OptionInputs(self) ==
    UNION {FileSeqsOver(OptionEvents(self), n, MaxEvents) : n \in 0 .. MaxFiles}

RECURSIVE SumAttendees(_)
SumAttendees(es) ==
    IF es = <<>> THEN 0 ELSE Head(es).attendees + SumAttendees(Tail(es))

----------------------------------------------------------------------------
(* The destination calendar *)

DestRecords == [iCalUID : Ids, outlookUID : NativeIds \cup {Empty}]

RECURSIVE DestSeqs(_)
DestSeqs(n) ==
    IF n = 0 THEN {<<>>}
    ELSE {Append(s, r) : s \in DestSeqs(n - 1), r \in DestRecords}

DistinctUids(d) == \A j, k \in 1 .. Len(d) : d[j].iCalUID = d[k].iCalUID => j = k

Dests == {d \in UNION {DestSeqs(n) : n \in 0 .. MaxDest} : DistinctUids(d)}

\* is there a record with this iCalUID at the destination
Exists(d, id) == \E k \in 1 .. Len(d) : d[k].iCalUID = id

\* events().import_(body=...).execute() succeeding: the destination stores the
\* record under its iCalUID (one record per iCalUID).
Stored(d, b) ==
    LET r == [iCalUID |-> b.iCalUID, outlookUID |-> b.outlookUID]
    IN  IF Exists(d, b.iCalUID)
        THEN [k \in 1 .. Len(d) |-> IF d[k].iCalUID = b.iCalUID THEN r ELSE d[k]]
        ELSE Append(d, r)

\* what the destination holds after a successful import_: the record as
\* submitted; when a record with this iCalUID was there already, the service
\* either replaces it or keeps the one it has
StoredOutcomes(d, b) == {Stored(d, b)} \cup (IF Exists(d, b.iCalUID) THEN {d} ELSE {})

\* the items of page p (p = 0 is the call without pageToken)
PageItems(d, p) ==
    {d[k] : k \in {j \in 1 .. Len(d) : j > p * PageSize /\ j <= (p + 1) * PageSize}}

\* mutant: the listing stops after its first page
HasNextPageNever(d, p) == FALSE

\* events_result.get('nextPageToken')
HasNextPage(d, p) == (p + 1) * PageSize < Len(d)

\* mutant: the outlookUID of the items is not collected
UidsOfNativeOnly(items) == {r.iCalUID : r \in items} \ {Empty}

\* the iCalUID and the outlookUID of every item, when set
UidsOf(items) ==
    ({r.iCalUID : r \in items} \cup {r.outlookUID : r \in items}) \ {Empty}

AllUids(d) == UidsOf({d[k] : k \in 1 .. Len(d)})

----------------------------------------------------------------------------
(* Program constants *)

REQUESTS_PER_SECOND == 5

\* time.sleep(1) of the throttle
ThrottlePause == 1

\* time.sleep(60) after a rate-limit response
RateLimitCooldown == 60

NoStats ==
    [total_events |-> 0, imported |-> 0, skipped |-> 0, errors |-> 0,
     attendees_imported |-> 0, imported_without_attendees |-> 0]

NoBody == [iCalUID |-> Empty, outlookUID |-> Empty, attendees |-> 0, organizer |-> FALSE]

\* start_date = None, end_date = None
NoDate == 0

\* args.limit when --limit is not given
NoLimit == 0

----------------------------------------------------------------------------
VARIABLES
    files,           \* the input: per ICS file, its events and bad records
    skip_duplicates, \* not args.no_skip_duplicates
    dry_run,         \* args.dry_run
    limit,           \* args.limit
    add_self,        \* args.add_self is given and --no-attendees is not
    start_date,      \* main: the parsed --start-date
    end_date,        \* main: the parsed --end-date
    dest,            \* the destination calendar
    pc,              \* position of the program
    fileIdx,         \* main: index of the file being processed
    events,          \* main / import_events: events of the current file
    i,               \* import_events: index of the event under consideration
    existing_uids,   \* import_events: the duplicate set
    uids,            \* _get_existing_uids: ids collected so far
    page_token,      \* _get_existing_uids: page to request
    imported,        \* import_events: local counters
    skipped,
    errors,
    stats,           \* importer.stats
    exit_status,     \* exit status of the process, once pc = "exit"
    slept,           \* seconds slept right before the last submission
    \* history, for stating the properties
    attempts,        \* submissions made for the event under consideration
    body,            \* body of the last submission
    last_resp,       \* response to the last submission
    done,            \* outcome and submissions of each event handled in this call
    listCalls,       \* events().list calls made by this import_events call
    listFailed,      \* the listing of this call raised
    error_lines,     \* per-event error lines this import_events call printed
    anyListFailed,   \* a listing of this run or of an earlier run raised
    dest0,           \* the destination when the run started
    prev,            \* importer.stats at the end of each earlier run
    \* the functions and the class studied on their own
    arg,             \* the arguments of the function under study
    ret,             \* its return value, once returned
    returned,
    validation,      \* a ValidationResult
    calls,           \* history: the methods called on it, in order
    \* pst_to_gmail.py, studied on its own
    args,            \* the command line of pst_to_gmail.py
    output_dir,      \* the file system at args.output_dir
    mig_pc,          \* position of its main
    mig              \* the locals of its main

vars == <<files, skip_duplicates, dry_run, limit, add_self, start_date, end_date,
          dest, pc, fileIdx, events, i,
          existing_uids, uids, page_token, imported, skipped, errors, stats,
          exit_status, slept, attempts, body, last_resp, done, listCalls,
          listFailed, error_lines, anyListFailed, dest0, prev, arg, ret, returned,
          validation, calls, args, output_dir, mig_pc, mig>>

\* what belongs to pst_to_gmail.py
migVars == <<args, output_dir, mig_pc, mig>>

\* what belongs to the function or the class studied on its own
unitVars == <<arg, ret, returned, validation, calls, migVars>>

\* the options and the input of main
optionVars == <<limit, add_self, start_date, end_date>>

\* what no step of a run changes
inputVars == <<files, skip_duplicates, dry_run, dest0, prev, optionVars, unitVars>>
histVars  == <<attempts, done, listCalls, listFailed, error_lines>>
callVars  == <<events, existing_uids, uids, page_token, imported, skipped, errors,
               slept, attempts, body, last_resp, done, listCalls, listFailed,
               error_lines, anyListFailed, i>>

\* pst_to_gmail.py is not running
NoMigration ==
    /\ args = <<>>
    /\ output_dir = "absent"
    /\ mig_pc = "idle"
    /\ mig = <<>>

\* no function is under study
NoUnit ==
    /\ arg = <<>>
    /\ ret = <<>>
    /\ returned = FALSE
    /\ validation = [warnings |-> <<>>, errors |-> <<>>]
    /\ calls = <<>>
    /\ NoMigration

\* the state in which main starts its work
InitRun ==
    /\ dest0 = dest
    /\ pc = "main"
    /\ fileIdx = 1
    /\ events = <<>>
    /\ i = 1
    /\ existing_uids = {}
    /\ uids = {}
    /\ page_token = 0
    /\ imported = 0
    /\ skipped = 0
    /\ errors = 0
    /\ stats = NoStats
    /\ exit_status = 0
    /\ slept = 0
    /\ attempts = 0
    /\ body = NoBody
    /\ last_resp = "none"
    /\ done = <<>>
    /\ listCalls = 0
    /\ listFailed = FALSE
    /\ error_lines = 0
    /\ anyListFailed = FALSE
    /\ prev = <<>>

\* a run without --limit, --add-self, --start-date and --end-date
Init ==
    /\ files \in Inputs(MaxEvents)
    /\ skip_duplicates \in BOOLEAN
    /\ dry_run \in BOOLEAN
    /\ limit = NoLimit
    /\ add_self = FALSE
    /\ start_date = NoDate
    /\ end_date = NoDate
    /\ dest \in Dests
    /\ InitRun
    /\ NoUnit

----------------------------------------------------------------------------
(* main *)

\* main, "if not ics_files: ... sys.exit(1)"
ExitNoFiles ==
    /\ pc = "main"
    /\ files = <<>>
    /\ pc' = "exit"
    /\ exit_status' = 1
    /\ UNCHANGED <<inputVars, callVars, dest, fileIdx, stats>>

\* filter_events_by_date: start_str = start.get('dateTime') or
\* start.get('date'); a string with 'T' is read by datetime.fromisoformat and
\* its date taken, a string without by strptime('%Y-%m-%d')
EventDate(e) ==
    IF "dateTime" \in DOMAIN e.start THEN e.start.dateTime.day ELSE e.start.date

\* mutant: an event that starts on end_date is kept
RECURSIVE FilterLoopEndInclusive(_, _, _)
FilterLoopEndInclusive(es, sd, ed) ==
    IF es = <<>> THEN <<>>
    ELSE LET e == Head(es)
             rest == FilterLoopEndInclusive(Tail(es), sd, ed)
         IN  IF sd # NoDate /\ EventDate(e) < sd THEN rest
             ELSE IF ed # NoDate /\ EventDate(e) > ed THEN rest
             ELSE <<e>> \o rest

\* filter_events_by_date, the loop: an event before start_date or not before
\* end_date is passed over, every other event appended
RECURSIVE FilterLoop(_, _, _)
FilterLoop(es, sd, ed) ==
    IF es = <<>> THEN <<>>
    ELSE LET e == Head(es)
             rest == FilterLoop(Tail(es), sd, ed)
         IN  IF sd # NoDate /\ EventDate(e) < sd THEN rest
             ELSE IF ed # NoDate /\ EventDate(e) >= ed THEN rest
             ELSE <<e>> \o rest

\* filter_events_by_date
filter_events_by_date(es, sd, ed) ==
    IF sd = NoDate /\ ed = NoDate THEN es ELSE FilterLoop(es, sd, ed)

\* main, "if args.limit and len(events) > args.limit: events = events[:args.limit]"
Limited(es) ==
    IF limit # NoLimit /\ Len(es) > limit THEN SubSeq(es, 1, limit) ELSE es

\* main, --add-self: the address is appended to the attendees of an event
\* that does not list it
AddSelf(e) ==
    IF e.self_attendee THEN e
    ELSE [e EXCEPT !.attendees = @ + 1, !.self_attendee = TRUE]

\* main, what is done to the events of a file between parse_ics_file and
\* import_events
Prepared(es) ==
    LET filtered == IF start_date # NoDate \/ end_date # NoDate
                    THEN filter_events_by_date(es, start_date, end_date)
                    ELSE es
        limited  == Limited(filtered)
    IN  IF add_self THEN [k \in 1 .. Len(limited) |-> AddSelf(limited[k])]
        ELSE limited

\* mutant: a record that cannot be converted is not counted as an error
ParseFileDropsBad ==
    /\ pc = "main"
    /\ fileIdx <= Len(files)
    /\ LET f == files[fileIdx] IN
        /\ stats' = [stats EXCEPT !.attendees_imported = @ + SumAttendees(f.events)]
        /\ events' = Prepared(f.events)
        /\ IF Prepared(f.events) # <<>>
           THEN pc' = "import" /\ fileIdx' = fileIdx
           ELSE pc' = "main" /\ fileIdx' = fileIdx + 1
    /\ done' = <<>>
    /\ attempts' = 0
    /\ listCalls' = 0
    /\ listFailed' = FALSE
    /\ error_lines' = 0
    /\ UNCHANGED <<inputVars, dest, exit_status, existing_uids, uids, page_token,
                   imported, skipped, errors, slept, body, last_resp, anyListFailed, i>>

\* main, one iteration of "for ics_file in ics_files" up to the call of
\* import_events: parse_ics_file converts the records (counting the attendees
\* it keeps and the records it cannot convert), then the date filter, the
\* limit and --add-self are applied; an empty list is passed over.
ParseFile ==
    /\ pc = "main"
    /\ fileIdx <= Len(files)
    /\ LET f == files[fileIdx] IN
        /\ stats' = [stats EXCEPT !.errors = @ + f.bad,
                                  !.attendees_imported = @ + SumAttendees(f.events)]
        /\ events' = Prepared(f.events)
        /\ IF Prepared(f.events) # <<>>
           THEN pc' = "import" /\ fileIdx' = fileIdx
           ELSE pc' = "main" /\ fileIdx' = fileIdx + 1
    /\ done' = <<>>
    /\ attempts' = 0
    /\ listCalls' = 0
    /\ listFailed' = FALSE
    /\ error_lines' = 0
    /\ UNCHANGED <<inputVars, dest, exit_status, existing_uids, uids, page_token,
                   imported, skipped, errors, slept, body, last_resp, anyListFailed, i>>

\* mutant: the exit status reports the errors of the run
MainEndFlagsErrors ==
    /\ pc = "main"
    /\ files # <<>>
    /\ fileIdx > Len(files)
    /\ pc' = "exit"
    /\ exit_status' = (IF stats.errors > 0 THEN 1 ELSE 0)
    /\ UNCHANGED <<inputVars, callVars, dest, fileIdx, stats>>

\* main, after the loop: print_summary() and return
MainEnd ==
    /\ pc = "main"
    /\ files # <<>>
    /\ fileIdx > Len(files)
    /\ pc' = "exit"
    /\ exit_status' = 0
    /\ UNCHANGED <<inputVars, callVars, dest, fileIdx, stats>>

----------------------------------------------------------------------------
(* import_events *)

\* "imported = 0; skipped = 0; errors = 0" and the start of the for loop
EnterLoop ==
    /\ pc' = "loop"
    /\ i' = 1
    /\ imported' = 0
    /\ skipped' = 0
    /\ errors' = 0

\* mutant: the destination is listed in a dry run too
ImportBeginListsInDryRun ==
    /\ pc = "import"
    /\ stats' = [stats EXCEPT !.total_events = @ + Len(events)]
    /\ uids' = {}
    /\ page_token' = 0
    /\ existing_uids' = {}
    /\ IF skip_duplicates
       THEN /\ pc' = "list"
            /\ UNCHANGED <<i, imported, skipped, errors>>
       ELSE EnterLoop
    /\ UNCHANGED <<inputVars, histVars, dest, fileIdx, events, exit_status, slept,
                   body, last_resp, anyListFailed>>

\* import_events up to the loop: total_events, and the listing of the
\* destination only "if skip_duplicates and not dry_run"
ImportBegin ==
    /\ pc = "import"
    /\ stats' = [stats EXCEPT !.total_events = @ + Len(events)]
    /\ uids' = {}
    /\ page_token' = 0
    /\ existing_uids' = {}
    /\ IF skip_duplicates /\ ~dry_run
       THEN /\ pc' = "list"
            /\ UNCHANGED <<i, imported, skipped, errors>>
       ELSE EnterLoop
    /\ UNCHANGED <<inputVars, histVars, dest, fileIdx, events, exit_status, slept,
                   body, last_resp, anyListFailed>>

\* _get_existing_uids: one events().list page is returned
ListPage ==
    /\ pc = "list"
    /\ listCalls' = listCalls + 1
    /\ uids' = uids \cup UidsOf(PageItems(dest, page_token))
    /\ IF HasNextPage(dest, page_token)
       THEN /\ page_token' = page_token + 1
            /\ UNCHANGED <<pc, i, imported, skipped, errors, existing_uids>>
       ELSE /\ page_token' = page_token
            /\ existing_uids' = uids'
            /\ EnterLoop
    /\ UNCHANGED <<inputVars, dest, fileIdx, events, stats, exit_status, slept,
                   attempts, body, last_resp, done, listFailed, error_lines,
                   anyListFailed>>

\* mutant: the exception of events().list is not caught and ends the process
ListFailAborts ==
    /\ pc = "list"
    /\ listCalls' = listCalls + 1
    /\ listFailed' = TRUE
    /\ anyListFailed' = TRUE
    /\ pc' = "exit"
    /\ exit_status' = 1
    /\ UNCHANGED <<inputVars, dest, fileIdx, events, stats, slept, attempts, body,
                   last_resp, done, uids, page_token, existing_uids, i, imported,
                   skipped, errors, error_lines>>

\* _get_existing_uids: events().list raises; "except Exception" prints a
\* warning and the ids collected so far are returned
ListFail ==
    /\ pc = "list"
    /\ listCalls' = listCalls + 1
    /\ listFailed' = TRUE
    /\ anyListFailed' = TRUE
    /\ existing_uids' = uids
    /\ EnterLoop
    /\ UNCHANGED <<inputVars, dest, fileIdx, events, stats, exit_status, slept,
                   attempts, body, last_resp, done, uids, page_token, error_lines>>

----------------------------------------------------------------------------
(* import_events: the loop over the events *)

\* ical_uid = event.get('iCalUID', '')
IcalUid == events[i].iCalUID

\* "if skip_duplicates and ical_uid in existing_uids"
IsDuplicate == skip_duplicates /\ IcalUid \in existing_uids

\* mutant: a successful submission does not enter the duplicate set
MarkImportedForgets(set, id) == set

\* "if ical_uid: existing_uids.add(ical_uid)"
MarkImported(set, id) == IF id # Empty THEN set \cup {id} ELSE set

\* mutant: the fallback keeps the attendees
ReducedCopyKeepsAttendees(e) == [e EXCEPT !.organizer = FALSE]

\* event_copy = event.copy(); pop('organizer'); pop('attendees')
ReducedCopy(e) == [e EXCEPT !.organizer = FALSE, !.attendees = 0]

\* "if imported > 0 and imported % REQUESTS_PER_SECOND == 0: time.sleep(1)"
Throttled == imported > 0 /\ imported % REQUESTS_PER_SECOND = 0

\* the errors a submission of this id can be answered with; a conflict (409)
\* means that the event already exists at the destination
ErrorResponses(id) ==
    {"rate_limit", "structural", "http_error", "exception"}
        \cup (IF Exists(dest, id) THEN {"conflict"} ELSE {})

\* "if errors <= 10: print(...)", after errors += 1
MaxErrorLines == 10

\* mutant: every error prints its line
LogErrorAlways == error_lines' = error_lines + 1

\* the error line of the event is printed unless ten errors came before it
LogError ==
    error_lines' = (IF errors' <= MaxErrorLines THEN error_lines + 1 ELSE error_lines)

\* the event under consideration reached its outcome; the loop moves on
Finish(outcome, n) ==
    /\ done' = Append(done, [outcome |-> outcome, attempts |-> n])
    /\ attempts' = 0
    /\ i' = i + 1
    /\ pc' = "loop"

AtEvent == pc = "loop" /\ i <= Len(events)

\* the event is in the duplicate set: skipped += 1; continue
SkipDuplicate ==
    /\ AtEvent
    /\ IsDuplicate
    /\ skipped' = skipped + 1
    /\ Finish("skipped", 0)
    /\ UNCHANGED <<inputVars, dest, fileIdx, events, stats, exit_status, existing_uids,
                   uids, page_token, imported, errors, slept, body, last_resp,
                   listCalls, listFailed, error_lines, anyListFailed>>

\* dry run: imported += 1; continue
DryRunImport ==
    /\ AtEvent
    /\ ~IsDuplicate
    /\ dry_run
    /\ imported' = imported + 1
    /\ Finish("imported", 0)
    /\ UNCHANGED <<inputVars, dest, fileIdx, events, stats, exit_status, existing_uids,
                   uids, page_token, skipped, errors, slept, body, last_resp,
                   listCalls, listFailed, error_lines, anyListFailed>>

\* mutant: the events are submitted from the last to the first
FirstAttemptReversed(resp) ==
    /\ AtEvent
    /\ ~IsDuplicate
    /\ ~dry_run
    /\ slept' = (IF Throttled THEN ThrottlePause ELSE 0)
    /\ body' = events[Len(events) + 1 - i]
    /\ last_resp' = resp
    /\ UNCHANGED <<inputVars, fileIdx, events, stats, exit_status, uids, page_token,
                   listCalls, listFailed, anyListFailed>>

\* the first attempt: throttle, then events().import_(body=event).execute()
FirstAttempt(resp) ==
    /\ AtEvent
    /\ ~IsDuplicate
    /\ ~dry_run
    /\ slept' = (IF Throttled THEN ThrottlePause ELSE 0)
    /\ body' = events[i]
    /\ last_resp' = resp
    /\ UNCHANGED <<inputVars, fileIdx, events, stats, exit_status, uids, page_token,
                   listCalls, listFailed, anyListFailed>>

\* the first attempt succeeds
SubmitOk ==
    /\ FirstAttempt("ok")
    /\ dest' \in StoredOutcomes(dest, events[i])
    /\ imported' = imported + 1
    /\ existing_uids' = MarkImported(existing_uids, IcalUid)
    /\ Finish("imported", 1)
    /\ UNCHANGED <<skipped, errors, error_lines>>

\* HttpError 429: sleep 60 seconds, then retry
SubmitRateLimited ==
    /\ FirstAttempt("rate_limit")
    /\ pc' = "retry"
    /\ attempts' = 1
    /\ UNCHANGED <<dest, imported, skipped, errors, error_lines, existing_uids, done, i>>

\* mutant: a conflict is counted nowhere
SubmitConflictUncounted ==
    /\ FirstAttempt("conflict")
    /\ "conflict" \in ErrorResponses(IcalUid)
    /\ Finish("skipped", 1)
    /\ UNCHANGED <<dest, imported, skipped, errors, error_lines, existing_uids>>

\* mutant: a conflict on the first attempt is counted as an error
SubmitConflictAsError ==
    /\ FirstAttempt("conflict")
    /\ "conflict" \in ErrorResponses(IcalUid)
    /\ errors' = errors + 1
    /\ Finish("errored", 1)
    /\ UNCHANGED <<dest, imported, skipped, error_lines, existing_uids>>

\* HttpError 409: skipped += 1
SubmitConflict ==
    /\ FirstAttempt("conflict")
    /\ "conflict" \in ErrorResponses(IcalUid)
    /\ skipped' = skipped + 1
    /\ Finish("skipped", 1)
    /\ UNCHANGED <<dest, imported, errors, error_lines, existing_uids>>

\* HttpError 400 participantIsNeitherOrganizerNorAttendee: fall back
SubmitStructural ==
    /\ FirstAttempt("structural")
    /\ pc' = "fallback"
    /\ attempts' = 1
    /\ UNCHANGED <<dest, imported, skipped, errors, error_lines, existing_uids, done, i>>

\* any other HttpError: errors += 1
SubmitHttpError ==
    /\ FirstAttempt("http_error")
    /\ errors' = errors + 1
    /\ LogError
    /\ Finish("errored", 1)
    /\ UNCHANGED <<dest, imported, skipped, existing_uids>>

\* mutant: an exception that is no HttpError is not caught and ends the process
SubmitExceptionAborts ==
    /\ AtEvent
    /\ ~IsDuplicate
    /\ ~dry_run
    /\ slept' = (IF Throttled THEN ThrottlePause ELSE 0)
    /\ body' = events[i]
    /\ last_resp' = "exception"
    /\ attempts' = 1
    /\ pc' = "exit"
    /\ exit_status' = 1
    /\ UNCHANGED <<inputVars, fileIdx, events, stats, uids, page_token, listCalls,
                   listFailed, anyListFailed, dest, imported, skipped, errors,
                   error_lines, existing_uids, done, i>>

\* "except Exception": errors += 1
SubmitException ==
    /\ FirstAttempt("exception")
    /\ errors' = errors + 1
    /\ LogError
    /\ Finish("errored", 1)
    /\ UNCHANGED <<dest, imported, skipped, existing_uids>>

\* the second attempt of the rate-limit branch: after the cooldown, the same
\* event again
Retry(resp) ==
    /\ pc = "retry"
    /\ slept' = RateLimitCooldown
    /\ body' = events[i]
    /\ last_resp' = resp
    /\ UNCHANGED <<inputVars, fileIdx, events, stats, exit_status, uids, page_token,
                   listCalls, listFailed, anyListFailed, skipped>>

\* mutant: the retried event does not enter the duplicate set
RetryOkUnmarked ==
    /\ Retry("ok")
    /\ dest' \in StoredOutcomes(dest, events[i])
    /\ imported' = imported + 1
    /\ Finish("imported", attempts + 1)
    /\ UNCHANGED <<errors, error_lines, existing_uids>>

\* the retry succeeds: imported += 1 and the id enters the duplicate set
RetryOk ==
    /\ Retry("ok")
    /\ dest' \in StoredOutcomes(dest, events[i])
    /\ imported' = imported + 1
    /\ existing_uids' = MarkImported(existing_uids, IcalUid)
    /\ Finish("imported", attempts + 1)
    /\ UNCHANGED <<errors, error_lines>>

\* mutant: a retry that is rate-limited again is retried again
RetryFailRetriesAgain ==
    /\ pc = "retry"
    /\ \E resp \in ErrorResponses(IcalUid) : Retry(resp)
    /\ IF last_resp' = "rate_limit" /\ attempts < 3
       THEN /\ attempts' = attempts + 1
            /\ UNCHANGED <<pc, i, done, errors, error_lines>>
       ELSE /\ errors' = errors + 1
            /\ LogError
            /\ Finish("errored", attempts + 1)
    /\ UNCHANGED <<dest, imported, existing_uids>>

\* "except Exception as retry_error": errors += 1, whatever the error
RetryFail ==
    /\ pc = "retry"
    /\ \E resp \in ErrorResponses(IcalUid) : Retry(resp)
    /\ errors' = errors + 1
    /\ LogError
    /\ Finish("errored", attempts + 1)
    /\ UNCHANGED <<dest, imported, existing_uids>>

\* mutant: the fallback removes organizer and attendees from the event itself
FallbackInPlace(resp) ==
    /\ pc = "fallback"
    /\ slept' = 0
    /\ events' = [events EXCEPT ![i] = ReducedCopy(@)]
    /\ body' = events'[i]
    /\ last_resp' = resp
    /\ UNCHANGED <<inputVars, fileIdx, exit_status, uids, page_token,
                   listCalls, listFailed, anyListFailed, skipped>>

\* the second attempt of the structural branch: the reduced copy
Fallback(resp) ==
    /\ pc = "fallback"
    /\ slept' = 0
    /\ body' = ReducedCopy(events[i])
    /\ last_resp' = resp
    /\ UNCHANGED <<inputVars, fileIdx, events, exit_status, uids, page_token,
                   listCalls, listFailed, anyListFailed, skipped>>

\* imported += 1 and stats['imported_without_attendees'] += 1
FallbackOk ==
    /\ Fallback("ok")
    /\ dest' \in StoredOutcomes(dest, ReducedCopy(events[i]))
    /\ imported' = imported + 1
    /\ stats' = [stats EXCEPT !.imported_without_attendees = @ + 1]
    /\ existing_uids' = MarkImported(existing_uids, IcalUid)
    /\ Finish("imported_without_attendees", attempts + 1)
    /\ UNCHANGED <<errors, error_lines>>

\* "except Exception as retry_error": errors += 1
FallbackFail ==
    /\ pc = "fallback"
    /\ \E resp \in ErrorResponses(IcalUid) : Fallback(resp)
    /\ errors' = errors + 1
    /\ LogError
    /\ Finish("errored", attempts + 1)
    /\ UNCHANGED <<dest, imported, existing_uids, stats>>

\* after the loop: the local counters are added to importer.stats
ImportEnd ==
    /\ pc = "loop"
    /\ i > Len(events)
    /\ stats' = [stats EXCEPT !.imported = @ + imported,
                              !.skipped = @ + skipped,
                              !.errors = @ + errors]
    /\ pc' = "main"
    /\ fileIdx' = fileIdx + 1
    /\ UNCHANGED <<inputVars, callVars, dest, exit_status>>

----------------------------------------------------------------------------
(* A further real run of the same pipeline, with skip_duplicates, on the    *)
(* same input against the destination as the run before left it            *)

Rerun ==
    /\ pc = "exit"
    /\ exit_status = 0
    /\ skip_duplicates /\ ~dry_run
    /\ Len(prev) + 1 < MaxRuns
    /\ prev' = Append(prev, stats)
    /\ dest0' = dest
    /\ pc' = "main"
    /\ fileIdx' = 1
    /\ events' = <<>>
    /\ i' = 1
    /\ existing_uids' = {}
    /\ uids' = {}
    /\ page_token' = 0
    /\ imported' = 0
    /\ skipped' = 0
    /\ errors' = 0
    /\ stats' = NoStats
    /\ slept' = 0
    /\ attempts' = 0
    /\ body' = NoBody
    /\ last_resp' = "none"
    /\ done' = <<>>
    /\ listCalls' = 0
    /\ listFailed' = FALSE
    /\ error_lines' = 0
    /\ UNCHANGED <<files, skip_duplicates, dry_run, optionVars, unitVars, dest,
                   exit_status, anyListFailed>>

----------------------------------------------------------------------------
Next ==
    \/ ExitNoFiles
    \/ ParseFile
    \/ MainEnd
    \/ ImportBegin
    \/ ListPage
    \/ ListFail
    \/ SkipDuplicate
    \/ DryRunImport
    \/ SubmitOk
    \/ SubmitRateLimited
    \/ SubmitConflict
    \/ SubmitStructural
    \/ SubmitHttpError
    \/ SubmitException
    \/ RetryOk
    \/ RetryFail
    \/ FallbackOk
    \/ FallbackFail
    \/ ImportEnd

Spec == Init /\ [][Next]_vars

\* a run with any of --limit, --add-self, --start-date and --end-date, against
\* an empty calendar
InitOptions ==
    /\ add_self \in BOOLEAN
    /\ files \in OptionInputs(add_self)
    /\ skip_duplicates \in BOOLEAN
    /\ dry_run \in BOOLEAN
    /\ limit \in 0 .. MaxLimit
    /\ start_date \in {NoDate} \cup (1 .. MaxDay)
    /\ end_date \in {NoDate} \cup (1 .. MaxDay)
    /\ dest = <<>>
    /\ InitRun
    /\ NoUnit

SpecOptions == InitOptions /\ [][Next]_vars

----------------------------------------------------------------------------
(* Functions and classes studied on their own: main is not running *)

NoImport ==
    /\ files = <<>>
    /\ skip_duplicates = TRUE
    /\ dry_run = FALSE
    /\ limit = NoLimit
    /\ add_self = FALSE
    /\ start_date = NoDate
    /\ end_date = NoDate
    /\ dest = <<>>
    /\ InitRun

NoRun ==
    /\ NoImport
    /\ validation = [warnings |-> <<>>, errors |-> <<>>]
    /\ calls = <<>>
    /\ NoMigration

runVars == <<files, skip_duplicates, dry_run, limit, add_self, start_date, end_date,
             dest, pc, fileIdx, events, i, existing_uids, uids, page_token,
             imported, skipped, errors, stats, exit_status, slept, attempts, body,
             last_resp, done, listCalls, listFailed, error_lines, anyListFailed,
             dest0, prev>>

\* the function under study returns v
Return(v) ==
    /\ ~returned
    /\ ret' = v
    /\ returned' = TRUE
    /\ UNCHANGED <<arg, validation, calls, migVars, runVars>>

(* filter_events_by_date *)

\* translated events as filter_events_by_date reads them: all-day and timed
\* starts on the days 1..MaxFilterDay
FilterEvents ==
    {ConvertVevent(id, 0, FALSE, st, FALSE) :
        id \in Ids,
        st \in {AllDayStart(d) : d \in 1 .. MaxFilterDay}
                \cup {TimedStart(d, 540) : d \in 1 .. MaxFilterDay}}

InitFilter ==
    /\ arg \in [events : UNION {SeqsOver(FilterEvents, n) : n \in 0 .. MaxFilterLen},
                 start_date : {NoDate} \cup (1 .. MaxFilterDay),
                 end_date : {NoDate} \cup (1 .. MaxFilterDay)]
    /\ ret = <<>>
    /\ returned = FALSE
    /\ NoRun

CallFilter == Return(filter_events_by_date(arg.events, arg.start_date, arg.end_date))

NextFilter == CallFilter

SpecFilter == InitFilter /\ [][NextFilter]_vars

(* Text: str.lower, str.upper, str.strip, "in", startswith, endswith *)

\* str.lower on one character
LowerOf ==
    ("A" :> "a") @@ ("B" :> "b") @@ ("C" :> "c") @@ ("D" :> "d") @@ ("E" :> "e")
    @@ ("F" :> "f") @@ ("G" :> "g") @@ ("H" :> "h") @@ ("I" :> "i") @@ ("J" :> "j")
    @@ ("K" :> "k") @@ ("L" :> "l") @@ ("M" :> "m") @@ ("N" :> "n") @@ ("O" :> "o")
    @@ ("P" :> "p") @@ ("Q" :> "q") @@ ("R" :> "r") @@ ("S" :> "s") @@ ("T" :> "t")
    @@ ("U" :> "u") @@ ("V" :> "v") @@ ("W" :> "w") @@ ("X" :> "x") @@ ("Y" :> "y")
    @@ ("Z" :> "z")

\* str.upper on one character
UpperOf ==
    ("a" :> "A") @@ ("b" :> "B") @@ ("c" :> "C") @@ ("d" :> "D") @@ ("e" :> "E")
    @@ ("f" :> "F") @@ ("g" :> "G") @@ ("h" :> "H") @@ ("i" :> "I") @@ ("j" :> "J")
    @@ ("k" :> "K") @@ ("l" :> "L") @@ ("m" :> "M") @@ ("n" :> "N") @@ ("o" :> "O")
    @@ ("p" :> "P") @@ ("q" :> "Q") @@ ("r" :> "R") @@ ("s" :> "S") @@ ("t" :> "T")
    @@ ("u" :> "U") @@ ("v" :> "V") @@ ("w" :> "W") @@ ("x" :> "X") @@ ("y" :> "Y")
    @@ ("z" :> "Z")

RECURSIVE Lower(_)
Lower(t) ==
    IF t = "" THEN ""
    ELSE LET c == SubSeq(t, 1, 1)
         IN  (IF c \in DOMAIN LowerOf THEN LowerOf[c] ELSE c) \o Lower(SubSeq(t, 2, Len(t)))

RECURSIVE Upper(_)
Upper(t) ==
    IF t = "" THEN ""
    ELSE LET c == SubSeq(t, 1, 1)
         IN  (IF c \in DOMAIN UpperOf THEN UpperOf[c] ELSE c) \o Upper(SubSeq(t, 2, Len(t)))

\* k in t
Contains(t, k) ==
    \E j \in 1 .. (Len(t) - Len(k) + 1) : SubSeq(t, j, j + Len(k) - 1) = k

StartsWith(t, k) == Len(k) <= Len(t) /\ SubSeq(t, 1, Len(k)) = k

EndsWith(t, k) == Len(k) <= Len(t) /\ SubSeq(t, Len(t) - Len(k) + 1, Len(t)) = k

IsSpace(c) == c \in {" ", "\t"}

RECURSIVE Strip(_)
Strip(t) ==
    IF t = "" THEN ""
    ELSE IF IsSpace(SubSeq(t, 1, 1)) THEN Strip(SubSeq(t, 2, Len(t)))
    ELSE IF IsSpace(SubSeq(t, Len(t), Len(t))) THEN Strip(SubSeq(t, 1, Len(t) - 1))
    ELSE t

(* _convert_vevent_to_google_event: the title *)

\* A property of a VEVENT that is absent is the empty text: the code reads
\* these properties through truth tests only, which None and '' both fail.

\* mutant: the meeting keywords are looked for before the explicit title
TitleKeywordsFirst(v) ==
    LET desc_str == Lower(v.description)
        loc_str  == Lower(v.location)
    IN  IF Contains(desc_str, "zoom") \/ Contains(loc_str, "zoom") THEN "Zoom Meeting"
        ELSE IF v.summary # "" /\ Strip(v.summary) # "" THEN v.summary
        ELSE IF Contains(desc_str, "teams") \/ Contains(loc_str, "teams") THEN "Teams Meeting"
        ELSE IF Contains(desc_str, "webex") \/ Contains(loc_str, "webex") THEN "Webex Meeting"
        ELSE "Busy"

\* event['summary'] of the translated event
Title(v) ==
    IF v.summary # "" /\ Strip(v.summary) # "" THEN v.summary
    ELSE
    LET desc_str == IF v.description # "" THEN Lower(v.description) ELSE ""
        loc_str  == IF v.location # "" THEN Lower(v.location) ELSE ""
    IN  IF Contains(desc_str, "zoom") \/ Contains(loc_str, "zoom") THEN "Zoom Meeting"
        ELSE IF \/ Contains(desc_str, "teams") \/ Contains(loc_str, "teams")
                \/ Contains(desc_str, "microsoft teams")
             THEN "Teams Meeting"
        ELSE IF Contains(desc_str, "webex") \/ Contains(loc_str, "webex") THEN "Webex Meeting"
        ELSE IF Contains(desc_str, "meet.google") \/ Contains(loc_str, "meet.google")
             THEN "Google Meet"
        ELSE IF v.busystatus # ""
             THEN LET status_str == Upper(v.busystatus)
                  IN  IF status_str = "FREE" THEN "Free"
                      ELSE IF status_str = "TENTATIVE" THEN "Tentative"
                      ELSE IF status_str = "OOF" THEN "Out of Office"
                      ELSE "Busy"
        ELSE IF v.transp # "" /\ Upper(v.transp) = "TRANSPARENT" THEN "Free"
        ELSE "Busy"

Summaries == {"", "  ", "Standup", " Review\t"}
Descriptions ==
    {"", "Join Zoom here", "MICROSOFT TEAMS call", "webex link",
     "https://meet.google.com/abc", "zoom or teams", "lunch"}
Locations == {"", "ZOOM", "Teams room", "WebEx", "Meet.Google.com", "Room 5"}
BusyStatuses == {"", "FREE", "free", "TENTATIVE", "OOF", "BUSY", "WORKINGELSEWHERE"}
Transparencies == {"", "TRANSPARENT", "transparent", "OPAQUE"}

InitTitle ==
    /\ arg \in [summary : Summaries, description : Descriptions, location : Locations,
                 busystatus : BusyStatuses, transp : Transparencies]
    /\ ret = <<>>
    /\ returned = FALSE
    /\ NoRun

CallTitle == Return(Title(arg))

NextTitle == CallTitle

SpecTitle == InitTitle /\ [][NextTitle]_vars

\* the program is one sequential process: it always takes its next step
FairSpec == Spec /\ WF_vars(Next)

NextRerun == Next \/ Rerun

SpecRerun == Init /\ [][NextRerun]_vars

(* normalize_timezone *)

\* TIMEZONE_MAPPINGS, in definition order
TIMEZONE_MAPPINGS ==
    <<<<"Eastern Standard Time", "America/New_York">>,
     <<"Eastern Daylight Time", "America/New_York">>,
     <<"Central Standard Time", "America/Chicago">>,
     <<"Central Daylight Time", "America/Chicago">>,
     <<"Mountain Standard Time", "America/Denver">>,
     <<"Mountain Daylight Time", "America/Denver">>,
     <<"US Mountain Standard Time", "America/Phoenix">>,
     <<"Pacific Standard Time", "America/Los_Angeles">>,
     <<"Pacific Daylight Time", "America/Los_Angeles">>,
     <<"Alaska Standard Time", "America/Anchorage">>,
     <<"Hawaiian Standard Time", "Pacific/Honolulu">>,
     <<"GMT Standard Time", "Europe/London">>,
     <<"W. Europe Standard Time", "Europe/Berlin">>,
     <<"Romance Standard Time", "Europe/Paris">>,
     <<"Central European Standard Time", "Europe/Budapest">>,
     <<"E. Europe Standard Time", "Europe/Bucharest">>,
     <<"FLE Standard Time", "Europe/Kiev">>,
     <<"Russian Standard Time", "Europe/Moscow">>,
     <<"Tokyo Standard Time", "Asia/Tokyo">>,
     <<"China Standard Time", "Asia/Shanghai">>,
     <<"Singapore Standard Time", "Asia/Singapore">>,
     <<"India Standard Time", "Asia/Kolkata">>,
     <<"Arabian Standard Time", "Asia/Dubai">>,
     <<"Israel Standard Time", "Asia/Jerusalem">>,
     <<"AUS Eastern Standard Time", "Australia/Sydney">>,
     <<"E. Australia Standard Time", "Australia/Brisbane">>,
     <<"AUS Central Standard Time", "Australia/Darwin">>,
     <<"Cen. Australia Standard Time", "Australia/Adelaide">>,
     <<"W. Australia Standard Time", "Australia/Perth">>,
     <<"New Zealand Standard Time", "Pacific/Auckland">>,
     <<"Venezuela Standard Time", "America/Caracas">>,
     <<"SA Pacific Standard Time", "America/Bogota">>,
     <<"Atlantic Standard Time", "America/Halifax">>,
     <<"UTC", "UTC">>,
     <<"Coordinated Universal Time", "UTC">>>>

\* names in the pytz database (its zones are more; these are the ones used)
PytzZones ==
    {TIMEZONE_MAPPINGS[j][2] : j \in 1 .. Len(TIMEZONE_MAPPINGS)}
        \cup {"Europe/Rome", "GMT", "EST"}

\* pytz.timezone(tz_str) does not raise: there is no pytz ("none"), or a pytz
\* that looks names up as they are written ("exact"), or one that looks them
\* up whatever their case ("folding")
PytzAccepts(mode, tz_str) ==
    \/ mode = "exact" /\ tz_str \in PytzZones
    \/ mode = "folding" /\ Lower(tz_str) \in {Lower(z) : z \in PytzZones}

\* mutant: only a table key contained in the input matches
PartialMatchKeyInInput(windows_tz, tz_str) ==
    Contains(Lower(tz_str), Lower(windows_tz))

\* "windows_tz.lower() in tz_str.lower() or tz_str.lower() in windows_tz.lower()"
PartialMatch(windows_tz, tz_str) ==
    \/ Contains(Lower(tz_str), Lower(windows_tz))
    \/ Contains(Lower(windows_tz), Lower(tz_str))

\* "for windows_tz, iana_tz in TIMEZONE_MAPPINGS.items()", from entry j on
RECURSIVE PartialLoop(_, _)
PartialLoop(j, tz_str) ==
    IF j > Len(TIMEZONE_MAPPINGS) THEN "UTC"
    ELSE IF PartialMatch(TIMEZONE_MAPPINGS[j][1], tz_str) THEN TIMEZONE_MAPPINGS[j][2]
    ELSE PartialLoop(j + 1, tz_str)

normalize_timezone(tz_str, mode) ==
    IF tz_str = "" THEN "UTC"
    ELSE IF mode # "none" /\ PytzAccepts(mode, tz_str) THEN tz_str
    ELSE IF \E j \in 1 .. Len(TIMEZONE_MAPPINGS) : TIMEZONE_MAPPINGS[j][1] = tz_str
         THEN LET j == CHOOSE j \in 1 .. Len(TIMEZONE_MAPPINGS) :
                           TIMEZONE_MAPPINGS[j][1] = tz_str
              IN  TIMEZONE_MAPPINGS[j][2]
    ELSE PartialLoop(1, tz_str)

\* timezone names as they come out of ICS files
TzNames ==
    {TIMEZONE_MAPPINGS[j][1] : j \in 1 .. Len(TIMEZONE_MAPPINGS)}
        \cup PytzZones
        \cup {"", "utc", "Nonexistent Time", "eastern standard time", "Standard Time",
              "(UTC-07:00) Mountain Standard Time",
              "US Mountain Standard Time (Arizona)", "europe/rome", "e",
              "Greenwich Standard Time", "Customized Time Zone"}

InitTz ==
    /\ arg \in [tz_str : TzNames, pytz : {"none", "exact", "folding"}]
    /\ ret = <<>>
    /\ returned = FALSE
    /\ NoRun

CallNormalize == Return(normalize_timezone(arg.tz_str, arg.pytz))

NextTz == CallNormalize

SpecTz == InitTz /\ [][NextTz]_vars

(* _convert_vevent_to_google_event: start and end *)

\* vevent.get(...) of a property the VEVENT does not have
NoProp == [kind |-> "none"]

\* a DTSTART or DTEND: .dt is a date (kind "date") or a datetime at a minute
\* of a day; tzid is its TZID parameter and tzinfo is str(dt.tzinfo), each ""
\* when there is none
DateProps ==
    {[kind |-> "date", day |-> d, minute |-> 0, tzid |-> "", tzinfo |-> ""] :
        d \in 1 .. MaxDtDay}

DateTimeProps ==
    {[kind |-> "datetime", day |-> d, minute |-> m, tzid |-> z[1], tzinfo |-> z[2]] :
        d \in 1 .. MaxDtDay, m \in {540, 1410},
        z \in {<<"", "">>, <<"Pacific Standard Time", "">>, <<"", "UTC">>,
               <<"", "Europe/Rome">>}}

\* a DURATION: .dt is a timedelta of so many minutes
Durations == {[kind |-> "duration", minutes |-> q] : q \in {30, 90, 1440, 2000}}

MinutesPerDay == 1440

\* date + timedelta adds the days of the timedelta only; datetime + timedelta
\* adds all of it
Plus(dt, q) ==
    IF dt.kind = "date" THEN [dt EXCEPT !.day = @ + (q \div MinutesPerDay)]
    ELSE LET total == dt.day * MinutesPerDay + dt.minute + q
         IN  [dt EXCEPT !.day = total \div MinutesPerDay, !.minute = total % MinutesPerDay]

\* date.isoformat() and datetime.isoformat()
IsoFormat(dt) ==
    IF dt.kind = "date" THEN [day |-> dt.day]
    ELSE [day |-> dt.day, minute |-> dt.minute]

\* mutant: a value in UTC keeps the zone UTC
GetTimezoneKeepsUtc(dt_prop, default_tz, mode) ==
    IF dt_prop.tzid # "" THEN normalize_timezone(dt_prop.tzid, mode)
    ELSE IF dt_prop.kind = "datetime" /\ dt_prop.tzinfo # ""
         THEN normalize_timezone(dt_prop.tzinfo, mode)
    ELSE default_tz

\* _get_timezone
GetTimezone(dt_prop, default_tz, mode) ==
    IF dt_prop.tzid # "" THEN normalize_timezone(dt_prop.tzid, mode)
    ELSE IF dt_prop.kind = "datetime" /\ dt_prop.tzinfo # "" /\ dt_prop.tzinfo # "UTC"
         THEN normalize_timezone(dt_prop.tzinfo, mode)
    ELSE default_tz

\* mutant: an all-day event without end and duration lasts one hour
EndDtHourForAllDay(v) ==
    IF v.dtend.kind # "none" THEN v.dtend
    ELSE IF v.duration.kind # "none" THEN Plus(v.dtstart, v.duration.minutes)
    ELSE Plus(v.dtstart, 60)

\* end_dt: "if dtend ... elif duration ... elif all-day ... else"
EndDt(v) ==
    IF v.dtend.kind # "none" THEN v.dtend
    ELSE IF v.duration.kind # "none" THEN Plus(v.dtstart, v.duration.minutes)
    ELSE IF v.dtstart.kind = "date" THEN Plus(v.dtstart, MinutesPerDay)
    ELSE Plus(v.dtstart, 60)

\* end_tz
EndTz(v) ==
    IF v.dtend.kind # "none" THEN GetTimezone(v.dtend, v.calendar_tz, v.pytz)
    ELSE GetTimezone(v.dtstart, v.calendar_tz, v.pytz)

\* event['start'] and event['end']; no event when there is no DTSTART
StartEnd(v) ==
    IF v.dtstart.kind = "none" THEN [translated |-> FALSE]
    ELSE IF v.dtstart.kind = "date"
    THEN [translated |-> TRUE,
          start |-> [date |-> IsoFormat(v.dtstart)],
          end   |-> [date |-> [day |-> EndDt(v).day]]]
    ELSE [translated |-> TRUE,
          start |-> [dateTime |-> IsoFormat(v.dtstart),
                     timeZone |-> GetTimezone(v.dtstart, v.calendar_tz, v.pytz)],
          end   |-> [dateTime |-> IsoFormat(EndDt(v)), timeZone |-> EndTz(v)]]

InitStartEnd ==
    /\ arg \in [dtstart : {NoProp} \cup DateProps \cup DateTimeProps,
                dtend : {NoProp} \cup DateProps \cup DateTimeProps,
                duration : {NoProp} \cup Durations,
                calendar_tz : {"America/Chicago", "UTC"},
                pytz : {"exact"}]
    /\ ret = <<>>
    /\ returned = FALSE
    /\ NoRun

CallStartEnd == Return(StartEnd(arg))

NextStartEnd == CallStartEnd

SpecStartEnd == InitStartEnd /\ [][NextStartEnd]_vars

(* _convert_vevent_to_google_event: reminders *)

\* "if minutes > 40320: minutes = 40320"
MaxReminderMinutes == 40320

\* unique_reminders[:5]
MaxOverrides == 5

\* VALARMs: ACTION ("" when absent) and TRIGGER, which is relative (a
\* timedelta of so many seconds) or absolute (a datetime)
Alarms ==
    {[action |-> "DISPLAY", trigger |-> "relative", seconds |-> -1800],
     [action |-> "email",   trigger |-> "relative", seconds |-> 1800],
     [action |-> "",        trigger |-> "relative", seconds |-> -90],
     [action |-> "DISPLAY", trigger |-> "relative", seconds |-> -3000000],
     [action |-> "EMAIL",   trigger |-> "relative", seconds |-> -2419260],
     [action |-> "DISPLAY", trigger |-> "absolute", seconds |-> 0],
     [action |-> "EMAIL",   trigger |-> "relative", seconds |-> 0],
     [action |-> "AUDIO",   trigger |-> "relative", seconds |-> -2419200]}

\* abs(int(x / 60)): int() drops the fraction
AbsIntDiv(x, n) == IF x >= 0 THEN x \div n ELSE (-x) \div n

\* the reminder appended for one VALARM with a relative trigger
ReminderOf(a) ==
    LET minutes == AbsIntDiv(a.seconds, 60)
    IN  [method  |-> IF a.action # "" /\ Upper(a.action) = "EMAIL" THEN "email" ELSE "popup",
         minutes |-> IF minutes > MaxReminderMinutes THEN MaxReminderMinutes ELSE minutes]

\* "for component in vevent.walk()": the list reminders
RECURSIVE Collect(_)
Collect(as) ==
    IF as = <<>> THEN <<>>
    ELSE IF Head(as).trigger = "relative"
         THEN <<ReminderOf(Head(as))>> \o Collect(Tail(as))
         ELSE Collect(Tail(as))

\* "for r in reminders": unique_reminders, given the set seen
RECURSIVE Unique(_, _)
Unique(rs, seen) ==
    IF rs = <<>> THEN <<>>
    ELSE IF Head(rs) \in seen THEN Unique(Tail(rs), seen)
         ELSE <<Head(rs)>> \o Unique(Tail(rs), seen \cup {Head(rs)})

FirstN(s, n) == SubSeq(s, 1, IF Len(s) < n THEN Len(s) ELSE n)

\* mutant: the list is cut to five before the repeats are removed
OverridesCutFirst(as) == Unique(FirstN(Collect(as), MaxOverrides), {})

\* event['reminders']['overrides']; the empty list when 'reminders' is not set
Overrides(as) == FirstN(Unique(Collect(as), {}), MaxOverrides)

InitReminders ==
    /\ \E n \in 0 .. MaxAlarms : arg \in [1 .. n -> Alarms]
    /\ ret = <<>>
    /\ returned = FALSE
    /\ NoRun

CallReminders == Return(Overrides(arg))

NextReminders == CallReminders

SpecReminders == InitReminders /\ [][NextReminders]_vars

(* _convert_vevent_to_google_event: organizer and attendees *)

\* str.replace(pat, ''): every occurrence of pat, from the left, is removed
RECURSIVE Remove(_, _)
Remove(t, pat) ==
    IF t = "" THEN ""
    ELSE IF StartsWith(t, pat) THEN Remove(SubSeq(t, Len(pat) + 1, Len(t)), pat)
    ELSE SubSeq(t, 1, 1) \o Remove(SubSeq(t, 2, Len(t)), pat)

\* str(x).replace('mailto:', '').replace('MAILTO:', '')
StripMailto(t) == Remove(Remove(t, "mailto:"), "MAILTO:")

\* event['organizer']['email'], "" when the event gets no organizer
OrganizerOf(organizer) ==
    IF organizer = "" THEN ""
    ELSE LET org_email == StripMailto(organizer)
         IN  IF org_email # "" /\ Contains(org_email, "@")
                    /\ ~StartsWith(org_email, "invalid:")
             THEN org_email
             ELSE ""

\* mutant: resource calendars are kept as attendees
SkipAttendeeKeepsResources(email) ==
    \/ email = "" \/ ~Contains(email, "@")
    \/ StartsWith(email, "invalid:")

\* the three "continue" of the loop over the attendees
SkipAttendee(email) ==
    \/ email = "" \/ ~Contains(email, "@")
    \/ StartsWith(email, "invalid:")
    \/ EndsWith(email, "@resource.calendar.google.com")

\* event_attendees, as far as the addresses go
RECURSIVE EventAttendees(_)
EventAttendees(as) ==
    IF as = <<>> THEN <<>>
    ELSE LET email == StripMailto(Head(as))
         IN  IF SkipAttendee(email) THEN EventAttendees(Tail(as))
             ELSE <<email>> \o EventAttendees(Tail(as))

\* the organizer and the attendees of the translated event
People(v) ==
    [organizer |-> OrganizerOf(v.organizer),
     attendees |-> IF v.include_attendees THEN EventAttendees(v.attendees) ELSE <<>>]

\* values of ORGANIZER and ATTENDEE properties
Addresses ==
    {"mailto:ann@x.org", "MAILTO:bob@x.org", "carl@x.org", "Mailto:dan@x.org",
     "mailto:invalid:nomail@x", "invalid:nomail", "mailto:", "mailto:nobody",
     "inmailto:valid:eve@x", "mailto:room1@resource.calendar.google.com"}

InitPeople ==
    /\ arg \in [organizer : {""} \cup Addresses,
                attendees : UNION {SeqsOver(Addresses, n) : n \in 0 .. MaxAttendees},
                include_attendees : BOOLEAN]
    /\ ret = <<>>
    /\ returned = FALSE
    /\ NoRun

CallPeople == Return(People(arg))

NextPeople == CallPeople

SpecPeople == InitPeople /\ [][NextPeople]_vars

(* eml_validator.py: class ValidationResult *)

\* messages validate_eml passes
Messages == {"Missing Date header", "Empty file"}

\* add_warning(msg)
add_warning(msg) ==
    /\ Len(calls) < MaxCalls
    /\ validation' = [validation EXCEPT !.warnings = Append(@, msg)]
    /\ calls' = Append(calls, "add_warning")
    /\ UNCHANGED <<arg, ret, returned, migVars, runVars>>

\* add_error(msg)
add_error(msg) ==
    /\ Len(calls) < MaxCalls
    /\ validation' = [validation EXCEPT !.errors = Append(@, msg)]
    /\ calls' = Append(calls, "add_error")
    /\ UNCHANGED <<arg, ret, returned, migVars, runVars>>

AddWarning == \E msg \in Messages : add_warning(msg)

AddError == \E msg \in Messages : add_error(msg)

\* mutant: a result with warnings is not valid
is_valid_without_warnings(r) == Len(r.errors) = 0 /\ Len(r.warnings) = 0

\* the property is_valid
is_valid(r) == Len(r.errors) = 0

\* the property has_issues
has_issues(r) == Len(r.errors) > 0 \/ Len(r.warnings) > 0

\* a fresh ValidationResult(path)
InitValidation ==
    /\ NoRun
    /\ arg = <<>>
    /\ ret = <<>>
    /\ returned = FALSE

NextValidation ==
    \/ AddWarning
    \/ AddError

SpecValidation == InitValidation /\ [][NextValidation]_vars

----------------------------------------------------------------------------
(* pst_to_gmail.py: main, convert_pst_to_eml and run_gyb_upload *)

\* The file system at args.output_dir: the directory is "absent", or exists
\* without any *.mbox file below it ("empty"), or with some ("mbox").  The
\* input file is only read.

\* message and file counts are 0..MaxMessages
MaxMessages == 1

Counts == 0 .. MaxMessages

\* count_mbox_files(Path(args.output_dir)), for each count the directory allows
MboxCounts(d) == IF d = "mbox" THEN 1 .. MaxMessages ELSE {0}

\* what does not belong to pst_to_gmail.py
notMigVars == <<arg, ret, returned, validation, calls, runVars>>

InitMigration ==
    /\ args \in [input_format : {"pst", "mbox"}, dry_run : BOOLEAN,
                 resume : BOOLEAN, keep_converted : BOOLEAN]
    /\ output_dir \in {"absent", "empty", "mbox"}
    /\ mig_pc = "start"
    /\ mig = [needs_conversion |-> FALSE, success |-> FALSE, messages_found |-> 0,
              messages_uploaded |-> 0, messages_failed |-> 0, status |-> 0]
    /\ NoImport
    /\ arg = <<>>
    /\ ret = <<>>
    /\ returned = FALSE
    /\ validation = [warnings |-> <<>>, errors |-> <<>>]
    /\ calls = <<>>

\* main: readpst or GYB is not found: sys.exit(1)
MigToolMissing ==
    /\ mig_pc = "start"
    /\ mig_pc' = "exit"
    /\ mig' = [mig EXCEPT !.status = 1]
    /\ UNCHANGED <<args, output_dir, notMigVars>>

\* main: "if not args.dry_run: if not check_gyb_auth(...): sys.exit(1)"
MigAuthFails ==
    /\ mig_pc = "start"
    /\ ~args.dry_run
    /\ mig_pc' = "exit"
    /\ mig' = [mig EXCEPT !.status = 1]
    /\ UNCHANGED <<args, output_dir, notMigVars>>

\* main: the tools are found and, in a real run, GYB is authenticated
MigChecked ==
    /\ mig_pc = "start"
    /\ mig_pc' = "prepare"
    /\ UNCHANGED <<args, output_dir, mig, notMigVars>>

\* main, "if input_format == 'pst'": with --resume and MBOX files in the
\* output directory the conversion is skipped; without --resume an existing
\* output directory is removed (shutil.rmtree)
MigPreparePst ==
    /\ mig_pc = "prepare"
    /\ args.input_format = "pst"
    /\ IF args.resume /\ output_dir # "absent"
       THEN /\ output_dir' = output_dir
            /\ IF output_dir = "mbox"
               THEN /\ \E n \in MboxCounts(output_dir) :
                         mig' = [mig EXCEPT !.needs_conversion = FALSE,
                                            !.messages_found = n]
                    /\ mig_pc' = "upload"
               ELSE /\ mig' = [mig EXCEPT !.needs_conversion = TRUE]
                    /\ mig_pc' = "convert"
       ELSE /\ output_dir' = (IF output_dir # "absent" /\ ~args.resume
                              THEN "absent" ELSE output_dir)
            /\ mig' = [mig EXCEPT !.needs_conversion = TRUE]
            /\ mig_pc' = "convert"
    /\ UNCHANGED <<args, notMigVars>>

\* main, the other input formats: messages_found is estimated or counted
MigPrepareOther ==
    /\ mig_pc = "prepare"
    /\ args.input_format # "pst"
    /\ \E n \in Counts : mig' = [mig EXCEPT !.messages_found = n]
    /\ mig_pc' = "upload"
    /\ UNCHANGED <<args, output_dir, notMigVars>>

\* convert_pst_to_eml with dry_run: "return True, estimated"
ConvertDryRun ==
    /\ mig_pc = "convert"
    /\ args.dry_run
    /\ \E estimated \in Counts :
          mig' = [mig EXCEPT !.success = TRUE, !.messages_found = estimated]
    /\ mig_pc' = "upload"
    /\ UNCHANGED <<args, output_dir, notMigVars>>

\* convert_pst_to_eml: output_dir.mkdir, and readpst exits with code 0
ConvertOk ==
    /\ mig_pc = "convert"
    /\ ~args.dry_run
    /\ output_dir' \in {"empty", "mbox"}
    /\ \E n \in MboxCounts(output_dir') :
          mig' = [mig EXCEPT !.success = TRUE, !.messages_found = n]
    /\ mig_pc' = "upload"
    /\ UNCHANGED <<args, notMigVars>>

\* convert_pst_to_eml: output_dir.mkdir, and readpst fails or cannot be
\* run: "return False, 0"; main: sys.exit(1)
ConvertFail ==
    /\ mig_pc = "convert"
    /\ ~args.dry_run
    /\ output_dir' \in {"empty", "mbox"}
    /\ mig' = [mig EXCEPT !.success = FALSE, !.status = 1]
    /\ mig_pc' = "exit"
    /\ UNCHANGED <<args, notMigVars>>

\* run_gyb_upload with dry_run: the files that would be uploaded are counted
UploadDryRun ==
    /\ mig_pc = "upload"
    /\ args.dry_run
    /\ \E count \in (IF args.input_format = "pst" THEN MboxCounts(output_dir) ELSE Counts) :
          mig' = [mig EXCEPT !.messages_uploaded = count, !.messages_failed = 0]
    /\ mig_pc' = "cleanup"
    /\ UNCHANGED <<args, output_dir, notMigVars>>

\* run_gyb_upload: GYB runs; the counts are read from its output
Upload ==
    /\ mig_pc = "upload"
    /\ ~args.dry_run
    /\ \E uploaded \in Counts, failed \in Counts :
          mig' = [mig EXCEPT !.messages_uploaded = uploaded, !.messages_failed = failed]
    /\ mig_pc' = "cleanup"
    /\ UNCHANGED <<args, output_dir, notMigVars>>

\* main, "Cleanup converted files" and the exit code
MigCleanup ==
    /\ mig_pc = "cleanup"
    /\ output_dir' =
          (IF args.input_format = "pst" /\ ~args.keep_converted /\ ~args.dry_run
                 /\ output_dir # "absent"
           THEN "absent" ELSE output_dir)
    /\ mig' = [mig EXCEPT !.status =
                  IF mig.messages_failed > 0 /\ mig.messages_uploaded = 0 THEN 1 ELSE 0]
    /\ mig_pc' = "exit"
    /\ UNCHANGED <<args, notMigVars>>

NextMigration ==
    \/ MigToolMissing
    \/ MigAuthFails
    \/ MigChecked
    \/ MigPreparePst
    \/ MigPrepareOther
    \/ ConvertDryRun
    \/ ConvertOk
    \/ ConvertFail
    \/ UploadDryRun
    \/ Upload
    \/ MigCleanup

SpecMigration == InitMigration /\ [][NextMigration]_vars

----------------------------------------------------------------------------
(* import_events on one long file *)

\* events of the long file
MaxBatch == 7

\* one file of n convertible records; duplicates are not looked for, so the
\* records may be copies of one
Batch(n) ==
    <<[events |-> [k \in 1 .. n |-> ConvertVevent(DerivedId, MaxAtt, TRUE, AllDayStart(1), FALSE)],
      bad |-> 0]>>

\* a real run with --no-skip-duplicates over a long file
InitBatch(n) ==
    /\ files = Batch(n)
    /\ skip_duplicates = FALSE
    /\ dry_run = FALSE
    /\ limit = NoLimit
    /\ add_self = FALSE
    /\ start_date = NoDate
    /\ end_date = NoDate
    /\ dest = <<>>
    /\ InitRun
    /\ NoUnit

InitThrottle == \E n \in 1 .. MaxBatch : InitBatch(n)

\* the destination accepts a first submission or answers it with a
\* rate-limit error or with another HTTP error
NextThrottle ==
    \/ ParseFile
    \/ MainEnd
    \/ ImportBegin
    \/ SubmitOk
    \/ SubmitRateLimited
    \/ SubmitHttpError
    \/ RetryOk
    \/ RetryFail
    \/ ImportEnd

SpecThrottle == InitThrottle /\ [][NextThrottle]_vars

\* events of the file whose submissions all fail
MaxFailing == 12

InitErrors == \E n \in 1 .. MaxFailing : InitBatch(n)

\* the destination accepts no submission
NextErrors ==
    \/ ParseFile
    \/ MainEnd
    \/ ImportBegin
    \/ SubmitRateLimited
    \/ SubmitStructural
    \/ SubmitHttpError
    \/ SubmitException
    \/ RetryFail
    \/ FallbackFail
    \/ ImportEnd

SpecErrors == InitErrors /\ [][NextErrors]_vars

----------------------------------------------------------------------------
(* A dry run, then the real run of the same input against the same         *)
(* destination, with skip_duplicates                                       *)

InitPredict ==
    /\ files \in Inputs(MaxEvents)
    /\ skip_duplicates = TRUE
    /\ dry_run = TRUE
    /\ limit = NoLimit
    /\ add_self = FALSE
    /\ start_date = NoDate
    /\ end_date = NoDate
    /\ dest \in Dests
    /\ InitRun
    /\ NoUnit

\* the command is run again without --dry-run
RunForReal ==
    /\ pc = "exit"
    /\ exit_status = 0
    /\ dry_run
    /\ dry_run' = FALSE
    /\ prev' = Append(prev, stats)
    /\ pc' = "main"
    /\ fileIdx' = 1
    /\ events' = <<>>
    /\ i' = 1
    /\ existing_uids' = {}
    /\ uids' = {}
    /\ page_token' = 0
    /\ imported' = 0
    /\ skipped' = 0
    /\ errors' = 0
    /\ stats' = NoStats
    /\ slept' = 0
    /\ attempts' = 0
    /\ body' = NoBody
    /\ last_resp' = "none"
    /\ done' = <<>>
    /\ listCalls' = 0
    /\ listFailed' = FALSE
    /\ error_lines' = 0
    /\ UNCHANGED <<files, skip_duplicates, optionVars, unitVars, dest, dest0,
                   exit_status, anyListFailed>>

\* the destination answers every listing and accepts every submission
NextPredict ==
    \/ ParseFile
    \/ MainEnd
    \/ ImportBegin
    \/ ListPage
    \/ SkipDuplicate
    \/ DryRunImport
    \/ SubmitOk
    \/ ImportEnd
    \/ RunForReal

SpecPredict == InitPredict /\ [][NextPredict]_vars

----------------------------------------------------------------------------
(* Definitions used to state the properties *)

Successful == {"imported", "imported_without_attendees"}

CountOutcome(d, S) == Cardinality({k \in 1 .. Len(d) : d[k].outcome \in S})

RECURSIVE BadUpTo(_)
BadUpTo(n) == IF n = 0 THEN 0 ELSE files[n].bad + BadUpTo(n - 1)

\* the files parse_ics_file has been called on
ParsedFiles ==
    LET n == IF pc \in {"main", "exit"} THEN fileIdx - 1 ELSE fileIdx
    IN  IF n > Len(files) THEN Len(files) ELSE n

\* the errors import_events counted, as opposed to the records that
\* parse_ics_file could not convert
ImportErrors(st) == st.errors - BadUpTo(Len(files))

InLoop == pc \in {"loop", "retry", "fallback"}

\* the external id and the provenance id of the first m records
IdsOfFirst(d, m) ==
    LET ks == {k \in 1 .. Len(d) : k <= m}
    IN  ({d[k].iCalUID : k \in ks} \cup {d[k].outlookUID : k \in ks}) \ {Empty}

\* the number of pages a complete listing fetches
NumPages(d) == IF Len(d) = 0 THEN 1 ELSE (Len(d) + PageSize - 1) \div PageSize

----------------------------------------------------------------------------
(* C1 .. C10 *)

C3_Original ==
    [][pc = "fallback" =>
        /\ body'.iCalUID = events[i].iCalUID
        /\ ~body'.organizer /\ body'.attendees = 0
        /\ pc' = "loop" /\ i' = i + 1 /\ done'[i].attempts = 2
        /\ IF last_resp' = "ok"
           THEN /\ stats'.imported_without_attendees = stats.imported_without_attendees + 1
                /\ imported' = imported /\ errors' = errors
           ELSE /\ errors' = errors + 1 /\ imported' = imported
                /\ stats'.imported_without_attendees = stats.imported_without_attendees
    ]_vars

\* C3 amended: after the structural rejection exactly one further submission
\* is made, of the event without organizer and attendees; its success counts
\* the event as imported and, in addition, as imported-without-attendees; its
\* failure counts the event as errored.
C3_Fallback ==
    [][pc = "fallback" =>
        /\ last_resp = "structural" /\ attempts = 1
        /\ body'.iCalUID = events[i].iCalUID
        /\ ~body'.organizer /\ body'.attendees = 0
        /\ pc' = "loop" /\ i' = i + 1 /\ done'[i].attempts = 2
        /\ skipped' = skipped
        /\ IF last_resp' = "ok"
           THEN /\ stats'.imported_without_attendees = stats.imported_without_attendees + 1
                /\ imported' = imported + 1 /\ errors' = errors
           ELSE /\ errors' = errors + 1 /\ imported' = imported
                /\ stats'.imported_without_attendees = stats.imported_without_attendees
    ]_vars

C3_Witness ==
    /\ Len(done) >= 1
    /\ done[Len(done)] = [outcome |-> "imported_without_attendees", attempts |-> 2]
    /\ events[Len(done)].attendees > 0 /\ events[Len(done)].organizer
    /\ body = ReducedCopy(events[Len(done)])
    /\ last_resp = "ok"
    /\ stats.imported_without_attendees = 1
    /\ imported = 1

\* C4: after a rate-limit rejection the importer waits the cooldown and submits
\* the same event exactly once more; success counts it imported and puts its
\* id into the duplicate set, any failure counts it errored.
C4_Retry ==
    [][pc = "retry" =>
        /\ last_resp = "rate_limit" /\ attempts = 1
        /\ slept' = RateLimitCooldown
        /\ body' = events[i]
        /\ pc' = "loop" /\ i' = i + 1 /\ done'[i].attempts = 2
        /\ skipped' = skipped /\ stats' = stats
        /\ IF last_resp' = "ok"
           THEN /\ imported' = imported + 1 /\ errors' = errors
                /\ events[i].iCalUID \in existing_uids'
                /\ done'[i].outcome = "imported"
           ELSE /\ errors' = errors + 1 /\ imported' = imported
                /\ existing_uids' = existing_uids
                /\ done'[i].outcome = "errored"
    ]_vars

C4_Witness ==
    /\ Len(done) >= 1
    /\ done[Len(done)] = [outcome |-> "imported", attempts |-> 2]
    /\ last_resp = "ok"
    /\ slept = RateLimitCooldown
    /\ body = events[Len(done)]
    /\ events[Len(done)].iCalUID \in existing_uids
    /\ ~skip_duplicates

\* C5: every event handled by import_events has exactly one outcome, counted
\* by exactly one of imported, skipped and errors; when the loop is over the
\* three counters sum to the number of events given, and importer.stats
\* receives them.
C5_OneOutcomeEach ==
    /\ InLoop =>
        /\ Len(done) = i - 1
        /\ imported = CountOutcome(done, Successful)
        /\ skipped = CountOutcome(done, {"skipped"})
        /\ errors = CountOutcome(done, {"errored"})
        /\ imported + skipped + errors = i - 1
    /\ (pc = "loop" /\ i > Len(events)) => imported + skipped + errors = Len(events)
    /\ (pc \in {"main", "exit"}) =>
          stats.imported + stats.skipped + (stats.errors - BadUpTo(ParsedFiles))
              = stats.total_events

C5_Witness ==
    /\ pc = "loop" /\ i > Len(events) /\ Len(events) = 2
    /\ done[1].outcome = "errored"
    /\ done[2].outcome = "skipped" /\ done[2].attempts = 1
    /\ errors = 1 /\ skipped = 1 /\ imported = 0

\* C6: the run always completes, and whenever import_events has returned every
\* event it was given has been handled, whatever the destination answered.
C6_AlwaysCompletes ==
    /\ <>(pc = "exit")
    /\ []((pc \in {"main", "exit"}) => (Len(done) = Len(events) /\ attempts = 0))

C6_Witness ==
    /\ pc = "exit"
    /\ Len(done) = 2
    /\ done[1] = [outcome |-> "errored", attempts |-> 2]
    /\ done[2].attempts >= 1

\* C7: in a dry run no call is made to the destination (no listing, no
\* submission), the destination is unchanged, and every event that is not
\* skipped as a duplicate is counted imported.
C7_DryRunNoCalls ==
    dry_run =>
        /\ listCalls = 0 /\ ~listFailed
        /\ pc \notin {"list", "retry", "fallback"}
        /\ attempts = 0 /\ last_resp = "none" /\ body = NoBody
        /\ \A k \in 1 .. Len(done) : done[k].attempts = 0
        /\ dest = dest0
        /\ \A k \in 1 .. Len(done) :
              done[k].outcome = (IF skip_duplicates /\ events[k].iCalUID \in existing_uids
                                 THEN "skipped" ELSE "imported")
        /\ InLoop => (errors = 0 /\ imported + skipped = Len(done))

C7_Witness ==
    /\ dry_run /\ skip_duplicates
    /\ pc = "exit"
    /\ Len(done) = 2
    /\ Exists(dest, events[1].iCalUID)
    /\ stats.imported = 2

\* the duplicate set at the start of the loop
AtLoopStart == pc = "loop" /\ i = 1 /\ done = <<>>

C9_Original ==
    listFailed =>
        /\ attempts = 0
        /\ \A k \in 1 .. Len(done) : done[k].attempts = 0

\* C9 amended: a failed listing does not abort the run: the loop runs with the
\* ids collected before the failure as duplicate set, every event whose id is
\* not in the set is submitted, and the run ends normally.
C9_ListFailureContinues ==
    listFailed =>
        /\ pc \in {"loop", "retry", "fallback", "main", "exit"}
        /\ \A k \in 1 .. Len(done) :
              done[k].attempts = 0 => events[k].iCalUID \in existing_uids
        /\ (pc \in {"main", "exit"}) => Len(done) = Len(events)
        /\ (pc = "exit") => (exit_status = 0 /\ fileIdx > Len(files))

C9_Witness ==
    /\ listFailed
    /\ pc = "exit"
    /\ Len(done) = 2
    /\ done[1].attempts >= 1
    /\ done[2].attempts = 0

\* C10 as claimed: the exit status is not zero when an event ended errored.
C10_Original ==
    (pc = "exit" /\ ImportErrors(stats) > 0) => exit_status # 0

\* C10 amended: a run that processes its files exits with status zero whether or
\* not events ended errored, in a dry run and in a real run alike; the status
\* is not zero only when the run stops before any file is processed (here: no
\* ICS file found).
C10_ExitStatus ==
    (pc = "exit") => (exit_status = (IF files = <<>> THEN 1 ELSE 0))

C10_Witness ==
    /\ pc = "exit"
    /\ ImportErrors(stats) > 0
    /\ exit_status = 0

----------------------------------------------------------------------------
(* C11 .. C20 *)

\* the step ends the handling of an event with a submission that the
\* destination answers with a conflict
ConflictEndsEvent ==
    /\ InLoop
    /\ Len(done') = Len(done) + 1
    /\ done'[Len(done')].attempts >= 1
    /\ last_resp' = "conflict"

\* C11 as stated: whichever submission is rejected with a conflict, the event
\* is counted skipped and never errored.
C11_Original ==
    [][ConflictEndsEvent =>
          /\ done'[Len(done')].outcome = "skipped"
          /\ errors' = errors]_vars

\* C11: a first submission rejected with a conflict counts the event as
\* skipped (skipped + 1, neither errored nor imported), leaves the destination
\* and the duplicate set alone and is the only submission of the event; a
\* conflict answering the second attempt (rate-limit retry or reduced
\* fallback) counts the event as errored.
C11_Conflict ==
    [][ConflictEndsEvent =>
          IF pc = "loop"
          THEN /\ done'[Len(done')] = [outcome |-> "skipped", attempts |-> 1]
               /\ skipped' = skipped + 1
               /\ errors' = errors
               /\ imported' = imported
               /\ dest' = dest
               /\ existing_uids' = existing_uids
               /\ pc' = "loop"
          ELSE /\ done'[Len(done')] = [outcome |-> "errored", attempts |-> 2]
               /\ errors' = errors + 1
               /\ skipped' = skipped
               /\ imported' = imported]_vars

\* a first submission was answered with a conflict and the event is skipped
C11_Witness ==
    /\ pc = "loop"
    /\ done # <<>>
    /\ done[Len(done)] = [outcome |-> "skipped", attempts |-> 1]
    /\ last_resp = "conflict"
    /\ skipped >= 1
    /\ errors = 0

\* the events parse_ics_file returned for the current file that the date
\* filter and the limit let through, as the translation produced them
KeptTranslated ==
    Limited(IF start_date # NoDate \/ end_date # NoDate
            THEN filter_events_by_date(files[fileIdx].events, start_date, end_date)
            ELSE files[fileIdx].events)

\* import_events is at work on the events of the current file
Importing == pc \in {"import", "list", "loop", "retry", "fallback"}

\* C12 as stated: whatever the options, every event import_events handles is
\* as the translation produced it.
C12_Original == Importing => events = KeptTranslated

\* C12: the only stage that modifies a translated event is --add-self in
\* main, which appends the address to the attendees of every event that does
\* not list it; import_events modifies no event: the structural-error
\* fallback submits a reduced copy and the event keeps its organizer and
\* attendees.
C12_Unmodified ==
    Importing =>
        /\ Len(events) = Len(KeptTranslated)
        /\ \A k \in 1 .. Len(events) :
              LET t == KeptTranslated[k] IN
                  IF add_self /\ ~t.self_attendee
                  THEN events[k] = [t EXCEPT !.attendees = t.attendees + 1,
                                             !.self_attendee = TRUE]
                  ELSE events[k] = t
        /\ \A k \in 1 .. Len(done) :
              (pc = "loop" /\ k = Len(done)
                    /\ done[k].outcome = "imported_without_attendees") =>
                  /\ body.attendees = 0 /\ ~body.organizer
                  /\ events[k].organizer = KeptTranslated[k].organizer
                  /\ events[k].attendees >= KeptTranslated[k].attendees

\* the fallback succeeded for an event with organizer and attendees, one of
\* them added by --add-self
C12_Witness ==
    /\ pc = "loop"
    /\ add_self
    /\ done # <<>>
    /\ done[Len(done)].outcome = "imported_without_attendees"
    /\ events[Len(done)].organizer
    /\ events[Len(done)].attendees = KeptTranslated[Len(done)].attendees + 1
    /\ body.attendees = 0

\* C13: with --limit N, at most N events are imported in a run, whatever the
\* number of input files (the imports of the files already handled and of the
\* file at hand together).
C13_AtMostLimit ==
    limit # NoLimit =>
        stats.imported + (IF InLoop THEN imported ELSE 0) <= limit
\* the day on which an event starts
StartDay(e) ==
    IF "date" \in DOMAIN e.start THEN e.start.date ELSE e.start.dateTime.day

\* start_date <= d when start_date is given, d < end_date when end_date is
InRange(d, sd, ed) == (sd # NoDate => sd <= d) /\ (ed # NoDate => d < ed)

Mentions(v, kw) ==
    Contains(Lower(v.description), kw) \/ Contains(Lower(v.location), kw)

\* the title the busy status, the transparency or the default give
StatusTitle(v) ==
    IF v.busystatus # ""
    THEN CASE Upper(v.busystatus) = "FREE" -> "Free"
           [] Upper(v.busystatus) = "TENTATIVE" -> "Tentative"
           [] Upper(v.busystatus) = "OOF" -> "Out of Office"
           [] OTHER -> "Busy"
    ELSE IF Upper(v.transp) = "TRANSPARENT" THEN "Free" ELSE "Busy"

\* C15: the title is never blank and is chosen by strict priority: the
\* explicit title when not blank after trimming; else the first of the
\* keywords zoom, teams, webex, meet.google found case-insensitively in the
\* description or the location; else the busy status mapped (FREE, TENTATIVE,
\* OOF, other); else Free for a transparent event; else Busy.
C15_TitlePriority ==
    returned =>
        /\ Strip(ret) # ""
        /\ ret = (IF Strip(arg.summary) # "" THEN arg.summary
                  ELSE IF Mentions(arg, "zoom") THEN "Zoom Meeting"
                  ELSE IF Mentions(arg, "teams") THEN "Teams Meeting"
                  ELSE IF Mentions(arg, "webex") THEN "Webex Meeting"
                  ELSE IF Mentions(arg, "meet.google") THEN "Google Meet"
                  ELSE StatusTitle(arg))

\* an explicit title is kept although the location contains 'zoom'
C15_Witness ==
    /\ returned
    /\ Strip(arg.summary) # ""
    /\ Contains(Lower(arg.location), "zoom")
    /\ arg.busystatus # ""
    /\ ret = arg.summary

\* the table entries whose key contains the name or is contained in it,
\* whatever the case
TableMatches(t) ==
    {j \in 1 .. Len(TIMEZONE_MAPPINGS) :
        \/ Contains(Lower(TIMEZONE_MAPPINGS[j][1]), Lower(t))
        \/ Contains(Lower(t), Lower(TIMEZONE_MAPPINGS[j][1]))}

\* the table entries whose key is the name
TableExact(t) == {j \in 1 .. Len(TIMEZONE_MAPPINGS) : TIMEZONE_MAPPINGS[j][1] = t}

Minimum(S) == CHOOSE m \in S : \A n \in S : m <= n

\* C19: normalize_timezone always returns, following five steps in order:
\* empty -> 'UTC'; a name the timezone database accepts -> unchanged; an exact
\* table key -> its value; else the value of the first table entry, in
\* definition order, whose key contains the name or is contained in it,
\* case-insensitively; else 'UTC'.
C19_NormalizeSteps ==
    returned =>
        LET t == arg.tz_str IN
        /\ ret = (IF t = "" THEN "UTC"
                  ELSE IF arg.pytz # "none" /\ PytzAccepts(arg.pytz, t) THEN t
                  ELSE IF TableExact(t) # {}
                       THEN TIMEZONE_MAPPINGS[Minimum(TableExact(t))][2]
                  ELSE IF TableMatches(t) # {}
                       THEN TIMEZONE_MAPPINGS[Minimum(TableMatches(t))][2]
                  ELSE "UTC")
        /\ t = "Eastern Standard Time" => ret = "America/New_York"
        /\ t = "Nonexistent Time" => ret = "UTC"

\* a name contained in several keys gets the value of the first of them
C19_Witness ==
    /\ returned
    /\ arg.tz_str = "Standard Time"
    /\ Cardinality(TableMatches(arg.tz_str)) > 1
    /\ ret = "America/New_York"

\* minutes from the start of day 0 to the start of a date or to a datetime
Instant(dt) == dt.day * MinutesPerDay + (IF dt.kind = "date" THEN 0 ELSE dt.minute)

\* the instant at which the translated event ends: the day of an all-day end
\* or the date and time of a timed end
EndInstant(e) ==
    IF "date" \in DOMAIN e.end THEN e.end.date.day * MinutesPerDay
    ELSE e.end.dateTime.day * MinutesPerDay
            + (IF "minute" \in DOMAIN e.end.dateTime THEN e.end.dateTime.minute ELSE 0)

\* the day in which an instant falls
DayOf(t) == t \div MinutesPerDay

PairOf(a) ==
    LET whole == IF a.seconds >= 0 THEN a.seconds \div 60 ELSE (-a.seconds) \div 60
    IN  [method  |-> IF Lower(a.action) = "email" THEN "email" ELSE "popup",
         minutes |-> IF whole < 40320 THEN whole ELSE 40320]

\* the alarms with a relative trigger whose pair no earlier such alarm has
FirstSeen(as) ==
    {k \in 1 .. Len(as) :
        /\ as[k].trigger = "relative"
        /\ \A j \in 1 .. (k - 1) :
              as[j].trigger = "relative" => PairOf(as[j]) # PairOf(as[k])}

\* C17: the reminders are the first five elements of the sequence obtained
\* from the alarms with a relative trigger, in source order, by mapping each
\* to (method, min(|offset in minutes|, 40320)), method email iff the action
\* is EMAIL in whatever case, and dropping every later repeat of a pair; so
\* at most 5 reminders, no pair twice, no minutes above 40320.
C17_Reminders ==
    returned =>
        LET F == FirstSeen(arg)
            Nth(n) == CHOOSE k \in F : Cardinality({j \in F : j < k}) = n - 1
        IN  /\ Len(ret) = (IF Cardinality(F) < 5 THEN Cardinality(F) ELSE 5)
            /\ \A n \in 1 .. Len(ret) : ret[n] = PairOf(arg[Nth(n)])
            /\ \A m, n \in 1 .. Len(ret) : ret[m] = ret[n] => m = n
            /\ \A n \in 1 .. Len(ret) : ret[n].minutes <= 40320

\* six alarms with six different pairs, two of them clamped: five reminders
C17_Witness ==
    /\ returned
    /\ Len(arg) = 6
    /\ Cardinality(FirstSeen(arg)) = 6
    /\ Len(ret) = 5
    /\ \E n \in 1 .. 5 : ret[n].minutes = 40320 /\ arg[n].seconds < -2419200

\* an address no translated event may carry as an attendee
BadAttendee(email) ==
    \/ email = ""
    \/ \A k \in 1 .. Len(email) : SubSeq(email, k, k) # "@"
    \/ Len(email) >= 8 /\ SubSeq(email, 1, 8) = "invalid:"
    \/ Len(email) >= 29
          /\ SubSeq(email, Len(email) - 28, Len(email)) = "@resource.calendar.google.com"

\* an address no translated event may carry as its organizer
BadOrganizer(email) ==
    \/ \A k \in 1 .. Len(email) : SubSeq(email, k, k) # "@"
    \/ Len(email) >= 8 /\ SubSeq(email, 1, 8) = "invalid:"

\* the addresses as the event carries them: without the mailto: prefix
Cleaned(as) == [k \in 1 .. Len(as) |-> StripMailto(as[k])]

\* C18: no translated event has an attendee whose email is empty, lacks '@',
\* begins with 'invalid:' or ends with the resource-calendar suffix, nor an
\* organizer whose email lacks '@' or begins with 'invalid:'; such entries are
\* dropped and the others kept, in order; without include_attendees the event
\* has no attendees.
C18_ValidPeople ==
    returned =>
        /\ \A k \in 1 .. Len(ret.attendees) : ~BadAttendee(ret.attendees[k])
        /\ ret.organizer # "" => ~BadOrganizer(ret.organizer)
        /\ ret.organizer =
              (IF BadOrganizer(StripMailto(arg.organizer)) THEN ""
               ELSE StripMailto(arg.organizer))
        /\ ret.attendees =
              (IF arg.include_attendees
               THEN SelectSeq(Cleaned(arg.attendees), LAMBDA e : ~BadAttendee(e))
               ELSE <<>>)

\* an invalid attendee and a resource calendar are dropped, the organizer
\* is kept
C18_Witness ==
    /\ returned
    /\ arg.include_attendees
    /\ arg.attendees = <<"mailto:invalid:nomail@x", "mailto:room1@resource.calendar.google.com">>
    /\ ret.attendees = <<>>
    /\ ret.organizer = "ann@x.org"

\* how often a method was called
CallsOf(method) == Cardinality({k \in 1 .. Len(calls) : calls[k] = method})

\* C20: after any sequence of add_warning and add_error calls, is_valid holds
\* exactly when add_error was never called, has_issues exactly when one of
\* the two was called, and warnings and errors are as long as the numbers of
\* the respective calls; a fresh result is valid and has no issues.
C20_ValidationResult ==
    /\ is_valid(validation) <=> CallsOf("add_error") = 0
    /\ has_issues(validation) <=> calls # <<>>
    /\ Len(validation.warnings) = CallsOf("add_warning")
    /\ Len(validation.errors) = CallsOf("add_error")
    /\ calls = <<>> => (is_valid(validation) /\ ~has_issues(validation))

\* warnings only: the result is valid and has issues
C20_Witness ==
    /\ CallsOf("add_warning") = 2
    /\ CallsOf("add_error") = 0
    /\ is_valid(validation)
    /\ has_issues(validation)
    /\ Len(validation.warnings) = 2

----------------------------------------------------------------------------
(* C21 .. C30 *)

\* C21: with dry_run set, no step of the PST migration (conversion, handling
\* of the output directory of a previous conversion, upload, cleanup) creates,
\* deletes or changes anything at the output directory, and the conversion
\* reports success.
C21_DryRunModifiesNothing ==
    [][args.dry_run =>
          /\ output_dir' = output_dir
          /\ mig_pc = "convert" => mig'.success]_vars

RECURSIVE SumAttempts(_)
SumAttempts(d) == IF d = <<>> THEN 0 ELSE Head(d).attempts + SumAttempts(Tail(d))

\* the submissions this import_events call has made so far
Submissions == SumAttempts(done) + attempts

\* C22: the throttle counts submissions: in a real run the importer pauses
\* after every 5 submissions, successful or not (so there is a pause before
\* the 6th, the 11th, ... submission of a call), and the throttle pause is
\* made at those points only.
C22_ThrottleCountsSubmissions ==
    [][(~dry_run /\ Submissions' = Submissions + 1) =>
          LET due == Submissions > 0 /\ Submissions % 5 = 0
          IN  /\ due => slept' > 0
              /\ slept' = ThrottlePause => due]_vars

\* the attendees of the events of this call that ended imported with their
\* attendees
RECURSIVE AttendeesOfImported(_)
AttendeesOfImported(n) ==
    IF n = 0 THEN 0
    ELSE (IF done[n].outcome = "imported" /\ done[n].attempts >= 1
          THEN events[n].attendees ELSE 0)
            + AttendeesOfImported(n - 1)

\* C23: the attendees-imported counter is increased only on a successful
\* submission, by the attendee count of the event submitted: at the end of a
\* run (here: over one file) it is the sum of the attendee counts of the
\* events that a submission imported with their attendees; events skipped,
\* errored, counted by a dry run or imported without attendees add nothing.
C23_AttendeesImported ==
    (pc = "exit" /\ Len(files) = 1) =>
        stats.attendees_imported = AttendeesOfImported(Len(done))

\* the property that gives the end of the event its zone
EndSource(v) == IF v.dtend.kind # "none" THEN v.dtend ELSE v.dtstart

\* the zone of a property as the claim resolves it
ZoneAsStated(p, v) ==
    IF p.tzid # "" THEN normalize_timezone(p.tzid, v.pytz)
    ELSE IF p.tzinfo # "" THEN normalize_timezone(p.tzinfo, v.pytz)
    ELSE v.calendar_tz

ZoneOf(p, v) ==
    IF p.tzid # "" THEN normalize_timezone(p.tzid, v.pytz)
    ELSE IF p.tzinfo \notin {"", "UTC"} THEN normalize_timezone(p.tzinfo, v.pytz)
    ELSE v.calendar_tz

Submits == InLoop /\ Submissions' = Submissions + 1

\* C25: submissions reach the destination in input order and one at a time:
\* the loop never moves back and never passes over an event; an event is
\* submitted only when every event before it has reached its outcome and no
\* event after it has been considered; and a retry or fallback is the very
\* next submission after the first attempt of the same event.
C25_InputOrder ==
    [][(InLoop /\ InLoop') =>
          /\ i' \in {i, i + 1}
          /\ Len(done') = i' - 1
          /\ Submits =>
                /\ Len(done) = i - 1
                /\ body' \in {events[i], ReducedCopy(events[i])}
                /\ IF pc = "loop"
                   THEN attempts = 0
                   ELSE /\ attempts = 1
                        /\ body = events[i]
                        /\ last_resp \in {"rate_limit", "structural"}]_vars

\* two different events, the first submitted twice, then the second
C25_Witness ==
    /\ pc = "loop"
    /\ Len(done) = 2
    /\ events[1] # events[2]
    /\ done[1].attempts = 2
    /\ done[2].attempts = 1
    /\ body = events[2]

\* C26: within one import_events call at most 10 per-event error lines are
\* printed (one for each of the first ten errored events, whichever failure
\* made them errored, none after), while the errors counter keeps counting
\* and ends equal to the number of events that ended errored.
C26_ErrorLinesCapped ==
    /\ error_lines <= 10
    /\ InLoop =>
          /\ errors = CountOutcome(done, {"errored"})
          /\ error_lines = (IF errors < 10 THEN errors ELSE 10)
    /\ (pc = "loop" /\ i > Len(events)) =>
          errors = Cardinality({k \in 1 .. Len(events) : done[k].outcome = "errored"})

\* twelve errored events of different failure kinds, ten lines
C26_Witness ==
    /\ pc = "loop"
    /\ i > Len(events)
    /\ errors = 12
    /\ error_lines = 10
    /\ done[10].attempts = 1
    /\ done[11].attempts = 2
    /\ done[12].attempts = 1
    /\ last_resp = "exception"

\* C27: the dry run predicts the real run: for the same events, the same
\* destination and skip_duplicates, when every submission of the real run
\* succeeds, the imported and skipped counts of the real run are those the
\* dry run reported.
C27_DryRunPredicts ==
    (pc = "exit" /\ ~dry_run /\ Len(prev) = 1) =>
        /\ stats.imported = prev[1].imported
        /\ stats.skipped = prev[1].skipped

\* C28: for every event import_events submits at most twice: the first
\* attempt and at most one second attempt (the retry after a rate-limit error
\* or the reduced fallback after the structural error); the second attempt
\* ends the handling of the event whatever its answer, a rate-limit, conflict
\* or structural error included.
C28_AtMostTwoSubmissions ==
    [][/\ attempts' <= 1
       /\ \A k \in 1 .. Len(done') : done'[k].attempts <= 2
       /\ Submits =>
             IF pc = "loop"
             THEN attempts = 0
             ELSE /\ attempts = 1
                  /\ pc' = "loop"
                  /\ i' = i + 1
                  /\ attempts' = 0
                  /\ done' = Append(done, [outcome |-> done'[i].outcome, attempts |-> 2])
                  /\ last_resp' # "ok" => done'[i].outcome = "errored"]_vars

\* a retry answered with a rate-limit error again: the event is errored after
\* two submissions
C28_Witness ==
    /\ pc = "loop"
    /\ done # <<>>
    /\ done[Len(done)] = [outcome |-> "errored", attempts |-> 2]
    /\ last_resp = "rate_limit"
    /\ slept = RateLimitCooldown
    /\ i = Len(done) + 1

\* the sum of the three outcome counters of importer.stats
OutcomeSum == stats.imported + stats.skipped + stats.errors

\* C29 as stated: between the calls and at the end of the run total_events is
\* imported + skipped + errors, also when records of a file failed to
\* translate.
C29_Original ==
    (pc \in {"main", "exit"}) => stats.total_events = OutcomeSum

\* C29: stats.errors also counts the records parse_ics_file could not
\* translate, which total_events does not: after any sequence of
\* parse_ics_file and import_events calls, total_events plus the number of
\* records that failed to translate is imported + skipped + errors, so the
\* three counters sum to total_events exactly when no record failed to
\* translate; during an import_events call the events of the call are in
\* total_events but not yet in the three counters.
C29_SummaryConsistent ==
    /\ (pc \in {"main", "exit"}) =>
          /\ stats.total_events + BadUpTo(ParsedFiles) = OutcomeSum
          /\ (stats.total_events = OutcomeSum) <=> (BadUpTo(ParsedFiles) = 0)
    /\ (pc = "import") => stats.total_events + BadUpTo(fileIdx) = OutcomeSum
    /\ (pc = "list" \/ InLoop) =>
          stats.total_events - Len(events) + BadUpTo(fileIdx) = OutcomeSum

\* one record imported and one that failed to translate: total_events is 1,
\* the counters sum to 2
C29_Witness ==
    /\ pc = "exit"
    /\ BadUpTo(Len(files)) = 1
    /\ stats.total_events = 1
    /\ stats.imported = 1
    /\ stats.errors = 1
    /\ stats.skipped = 0

\* C30: normalize_timezone is idempotent: normalizing its result again gives
\* the same name, whether or not the timezone database is available.
C30_Idempotent ==
    returned => normalize_timezone(ret, arg.pytz) = ret

====
